---- MODULE Spec2Model ----
(***************************************************************************)
(* Model of package whatsmyip (src/whatsmyip.go): the response parser      *)
(* getIP, the worker fetchURL and the race coordinator Get.                *)
(*                                                                         *)
(* Go strings are modelled as sequences of one-character strings, so the   *)
(* empty string is <<>> and strings.ToLower, strings.Split,                *)
(* strings.HasPrefix and strings.TrimPrefix are computed character by      *)
(* character.  A nil error is the value Nil; a non-nil error is its        *)
(* message.                                                                *)
(***************************************************************************)
EXTENDS Integers, Sequences, FiniteSets, TLC

VARIABLES
    urls,         \* the package-level endpoint list (var urls)
    net,          \* environment: how each endpoint behaves on the network
    gpc,          \* position of the goroutine running Get
    si,           \* rand.Shuffle's loop index i (0-based)
    gi,           \* Get's loop index: spawn loop, then receive loop (0-based)
    ctx,          \* the shared context: "none", "active" or "cancelled"
    cancelCalls,  \* how many times cancel() has been invoked
    ch,           \* the buffered fan-in channel, oldest value first
    wpc,          \* position of each fetchURL goroutine
    wurl,         \* the url argument each fetchURL goroutine was started with
    contacted,    \* history: the worker has issued its outbound request
    sendOrder,    \* history: every value sent on ch, in send order
    winner,       \* history: the worker whose value Get returned (0: none)
    ret,          \* Get's named results (ip, url, err)
    ppc,          \* parser harness: "call" before getIP runs, "done" after
    pin,          \* parser harness: the argument s of getIP
    pout,         \* parser harness: the result (ip, err) of getIP
    rpc,          \* overlapping calls: position of each call of Get
    rsi,          \* overlapping calls: each call's rand.Shuffle index i
    rj,           \* overlapping calls: each call's swap partner j
    rvi,          \* overlapping calls: the value a call read from urls[i]
    rvj,          \* overlapping calls: the value a call read from urls[j]
    rgi,          \* overlapping calls: each call's range index
    rstarted,     \* overlapping calls: the urls each call started workers with
    cip,          \* web server: IPCache.ip
    cfetch,       \* web server: IPCache.lastFetch, as a tick of the clock
    now,          \* web server: the clock, one tick per refresh
    mu,           \* web server: IPCache.mu, "free", "w" or a count of readers
    upc,          \* web server: position of the updateIP goroutine
    ures,         \* web server: what whatsmyip.Get returned to updateIP
    stored,       \* web server history: refreshes that have stored an ip
    hpc,          \* web server: position of each /ip handler
    hip,          \* web server: the ip a handler got from cache.getIP()
    hsaw,         \* web server history: stored, when the handler read the cache
    hresp         \* web server: the status and body a handler wrote

vars == <<urls, net, gpc, si, gi, ctx, cancelCalls, ch, wpc, wurl, contacted,
          sendOrder, winner, ret, ppc, pin, pout,
          rpc, rsi, rj, rvi, rvj, rgi, rstarted,
          cip, cfetch, now, mu, upc, ures, stored, hpc, hip, hsaw, hresp>>

getVars == <<urls, net, gpc, si, gi, ctx, cancelCalls, ch, wpc, wurl,
             contacted, sendOrder, winner, ret>>

parseVars == <<ppc, pin, pout>>

raceVars == <<rpc, rsi, rj, rvi, rvj, rgi, rstarted>>

webVars == <<cip, cfetch, now, mu, upc, ures, stored, hpc, hip, hsaw, hresp>>

----------------------------------------------------------------------------
(* Bounds of the model.                                                    *)

\* Number of configured endpoints (the program ships 12).
NumUrls == 3

\* Largest number of lines in a response body handed to getIP.
MaxLines == 3

----------------------------------------------------------------------------
(* Strings.                                                                *)

Nil == "nil"

EmptyStr == <<>>

NL == "\n"

IpEq == <<"i", "p", "=">>

\* unicode.ToLower on the characters the model uses.
LowerChar(c) ==
    CASE c = "I" -> "i"
      [] c = "P" -> "p"
      [] c = "A" -> "a"
      [] c = "B" -> "b"
      [] c = "D" -> "d"
      [] c = "R" -> "r"
      [] OTHER -> c

ToLower(s) == [k \in 1..Len(s) |-> LowerChar(s[k])]

\* strings.Contains(s, c) for a one-character separator c.
Contains(s, c) == \E k \in 1..Len(s) : s[k] = c

\* strings.Split(s, c) for a one-character separator c: the pieces between
\* separators, empty pieces kept, so the result is never empty.
RECURSIVE Split(_, _)
Split(s, c) ==
    IF ~Contains(s, c) THEN <<s>>
    ELSE LET k == CHOOSE n \in 1..Len(s) :
                      s[n] = c /\ \A m \in 1..(n - 1) : s[m] # c
         IN  <<SubSeq(s, 1, k - 1)>> \o Split(SubSeq(s, k + 1, Len(s)), c)

HasPrefix(s, p) == Len(s) >= Len(p) /\ SubSeq(s, 1, Len(p)) = p

TrimPrefix(s, p) == IF HasPrefix(s, p) THEN SubSeq(s, Len(p) + 1, Len(s)) ELSE s

RECURSIVE Join(_, _)
Join(lines, c) ==
    IF Len(lines) = 0 THEN EmptyStr
    ELSE IF Len(lines) = 1 THEN lines[1]
    ELSE lines[1] \o <<c>> \o Join(Tail(lines), c)

----------------------------------------------------------------------------
(* net.ParseIP, restricted to what the model's bodies can spell: IPv4 in   *)
(* dotted decimal (four fields of one to three digits, no leading zero,    *)
(* at most 255) and IPv6 as groups of one to four hex digits with at most  *)
(* one "::" (no embedded IPv4, no zone).                                   *)

Digits == {"0", "1", "2", "3", "4", "5", "6", "7", "8", "9"}

HexDigits == Digits \cup {"a", "b", "c", "d", "e", "f", "A", "B", "C", "D", "E", "F"}

DigitVal(c) ==
    CASE c = "0" -> 0 [] c = "1" -> 1 [] c = "2" -> 2 [] c = "3" -> 3
      [] c = "4" -> 4 [] c = "5" -> 5 [] c = "6" -> 6 [] c = "7" -> 7
      [] c = "8" -> 8 [] c = "9" -> 9

RECURSIVE DecVal(_)
DecVal(f) == IF Len(f) = 0 THEN 0
             ELSE 10 * DecVal(SubSeq(f, 1, Len(f) - 1)) + DigitVal(f[Len(f)])

IsV4Field(f) ==
    /\ Len(f) \in 1..3
    /\ \A k \in 1..Len(f) : f[k] \in Digits
    /\ (Len(f) > 1 => f[1] # "0")
    /\ DecVal(f) <= 255

IsIPv4(s) ==
    LET fs == Split(s, ".")
    IN  Len(fs) = 4 /\ \A k \in 1..4 : IsV4Field(fs[k])

IsV6Group(g) == Len(g) \in 1..4 /\ \A k \in 1..Len(g) : g[k] \in HexDigits

\* The groups of one side of a "::" (none when the side is empty).
V6Groups(s) == IF s = EmptyStr THEN <<>> ELSE Split(s, ":")

IsIPv6(s) ==
    LET gaps == {k \in 1..(Len(s) - 1) : s[k] = ":" /\ s[k + 1] = ":"}
    IN  IF gaps = {}
        THEN LET gs == Split(s, ":")
             IN  Len(gs) = 8 /\ \A k \in 1..8 : IsV6Group(gs[k])
        ELSE /\ Cardinality(gaps) = 1
             /\ LET k  == CHOOSE n \in gaps : TRUE
                    hd == V6Groups(SubSeq(s, 1, k - 1))
                    tl == V6Groups(SubSeq(s, k + 2, Len(s)))
                IN  /\ Len(hd) + Len(tl) <= 7
                    /\ \A n \in 1..Len(hd) : IsV6Group(hd[n])
                    /\ \A n \in 1..Len(tl) : IsV6Group(tl[n])

\* net.ParseIP(s) != nil
IsValidIP(s) == IsIPv4(s) \/ IsIPv6(s)

\* The canonical string form of a valid literal (net.IP.String): dotted
\* decimal for IPv4; for IPv6 lower-case hex groups without leading zeros,
\* the leftmost longest run of two or more zero groups written "::".
HexVal(c) ==
    CASE c \in Digits -> DigitVal(c)
      [] c \in {"a", "A"} -> 10 [] c \in {"b", "B"} -> 11
      [] c \in {"c", "C"} -> 12 [] c \in {"d", "D"} -> 13
      [] c \in {"e", "E"} -> 14 [] c \in {"f", "F"} -> 15

RECURSIVE HexGroupVal(_)
HexGroupVal(g) == IF Len(g) = 0 THEN 0
                  ELSE 16 * HexGroupVal(SubSeq(g, 1, Len(g) - 1)) + HexVal(g[Len(g)])

DigitChar(n) ==
    <<"0", "1", "2", "3", "4", "5", "6", "7", "8", "9",
      "a", "b", "c", "d", "e", "f">>[n + 1]

RECURSIVE NumStr(_, _)
NumStr(n, base) == IF n < base THEN <<DigitChar(n)>>
                   ELSE NumStr(n \div base, base) \o <<DigitChar(n % base)>>

\* The eight 16-bit groups of a valid IPv6 literal.
V6Value(s) ==
    LET gaps == {k \in 1..(Len(s) - 1) : s[k] = ":" /\ s[k + 1] = ":"}
        vals(gs) == [n \in 1..Len(gs) |-> HexGroupVal(gs[n])]
    IN  IF gaps = {} THEN vals(Split(s, ":"))
        ELSE LET k  == CHOOSE n \in gaps : TRUE
                 hd == V6Groups(SubSeq(s, 1, k - 1))
                 tl == V6Groups(SubSeq(s, k + 2, Len(s)))
             IN  vals(hd) \o [n \in 1..(8 - Len(hd) - Len(tl)) |-> 0] \o vals(tl)

\* The length of the run of zero groups of v that starts at group p.
RECURSIVE ZeroRun(_, _)
ZeroRun(v, p) == IF p > Len(v) \/ v[p] # 0 THEN 0 ELSE 1 + ZeroRun(v, p + 1)

V6String(v) ==
    LET best  == CHOOSE p \in 1..8 :
                     /\ \A q \in 1..8 : ZeroRun(v, q) <= ZeroRun(v, p)
                     /\ \A q \in 1..(p - 1) : ZeroRun(v, q) < ZeroRun(v, p)
        run   == ZeroRun(v, best)
        hex(a, b) == Join([n \in 1..(b - a + 1) |-> NumStr(v[a + n - 1], 16)], ":")
    IN  IF run < 2 THEN hex(1, 8)
        ELSE hex(1, best - 1) \o <<":", ":">> \o hex(best + run, 8)

Canonical(s) ==
    IF IsIPv4(s)
    THEN LET fs == Split(s, ".")
         IN  Join([n \in 1..4 |-> NumStr(DecVal(fs[n]), 10)], ".")
    ELSE V6String(V6Value(s))

----------------------------------------------------------------------------
(* getIP (src/whatsmyip.go:324-351).                                       *)

\* The for loop of getIP: the first line that starts with "ip=", with the
\* prefix trimmed; the function falls through to the final error when no
\* line does.
RECURSIVE FirstIpLine(_)
FirstIpLine(lines) ==
    IF Len(lines) = 0 THEN [ip |-> EmptyStr, err |-> "no ip address found"]
    ELSE IF HasPrefix(Head(lines), IpEq)
         THEN [ip |-> TrimPrefix(Head(lines), IpEq), err |-> Nil]
         ELSE FirstIpLine(Tail(lines))

\* Mutant of getIP: the input is not lowercased.
getIPNoLower(s0) ==
    LET s == s0
    IN  IF Contains(s, NL)
        THEN LET lines == Split(s, NL)
             IN  IF Len(lines) = 0
                 THEN [ip |-> EmptyStr, err |-> "empty response"]
                 ELSE IF Len(lines) = 2 /\ lines[2] = EmptyStr
                      THEN IF HasPrefix(lines[1], IpEq)
                           THEN [ip |-> TrimPrefix(lines[1], IpEq), err |-> Nil]
                           ELSE [ip |-> lines[1], err |-> Nil]
                      ELSE FirstIpLine(lines)
        ELSE [ip |-> s, err |-> Nil]

getIP(s0) ==
    LET s == ToLower(s0)
    IN  IF Contains(s, NL)
        THEN LET lines == Split(s, NL)
             IN  IF Len(lines) = 0
                 THEN [ip |-> EmptyStr, err |-> "empty response"]
                 ELSE IF Len(lines) = 2 /\ lines[2] = EmptyStr
                      THEN IF HasPrefix(lines[1], IpEq)
                           THEN [ip |-> TrimPrefix(lines[1], IpEq), err |-> Nil]
                           ELSE [ip |-> lines[1], err |-> Nil]
                      ELSE FirstIpLine(lines)
        ELSE [ip |-> s, err |-> Nil]

----------------------------------------------------------------------------
(* Response bodies.                                                        *)

Addr4a == <<"1", ".", "2", ".", "3", ".", "4">>

Addr6b == <<"2", "0", "0", "1", ":", "D", "B", "8", ":", ":", "1">>

\* The address of Addr6b, spelled with a leading zero in a group.
Addr6Long == <<"2", "0", "0", "1", ":", "0", "d", "b", "8", ":", ":", "1">>

BadOctet == <<"2", "5", "6", ".", "1", ".", "1", ".", "1">>

ReportOk == <<"R", "e", "p", "o", "r", "t", ":", " ", "o", "k">>

\* What a line can hold after its optional prefix.
Payloads == {Addr4a, Addr6b, Addr6Long, BadOctet, ReportOk, EmptyStr}

\* The spellings of the optional "ip=" prefix.
Prefixes == {EmptyStr, IpEq, <<"I", "P", "=">>}

Lines == {p \o a : p \in Prefixes, a \in Payloads}

\* Every body of one to maxLines lines, with and without a trailing newline.
Inputs(maxLines) ==
    LET seqs == UNION {[1..n -> Lines] : n \in 1..maxLines}
    IN  {Join(ls, NL) : ls \in seqs} \cup {Join(ls, NL) \o <<NL>> : ls \in seqs}

----------------------------------------------------------------------------
(* Harness for getIP as a pure function: Init draws the argument, the one  *)
(* action applies getIP.                                                   *)

ParseCall ==
    /\ ppc = "call"
    /\ pout' = getIP(pin)
    /\ ppc' = "done"
    /\ UNCHANGED <<pin, getVars, raceVars, webVars>>

----------------------------------------------------------------------------
(* The race: Get (src/whatsmyip.go:231-255) and one fetchURL goroutine per *)
(* endpoint (src/whatsmyip.go:272-299).                                    *)

\* Endpoint k of the configured list; a URL is a non-empty string.
Url(k) == <<"u", k>>

ConfiguredUrls == [k \in 1..NumUrls |-> Url(k)]

Workers == 1..NumUrls

\* How an endpoint behaves: "badurl" makes http.NewRequestWithContext fail,
\* "refused" makes Do return a transport error, "hang" never completes on
\* its own, "answers" delivers a response.
NetKinds == {"badurl", "refused", "hang", "answers"}

\* What io.ReadAll yields from an answering endpoint: a read error, or one
\* of these bodies.
Bodies == {EmptyStr,
           IpEq \o Addr4a \o <<NL>>,
           ReportOk,
           ReportOk \o <<NL>> \o ReportOk \o <<NL>>}

ReadOutcomes == {[err |-> "read error", body |-> EmptyStr]}
                    \cup {[err |-> Nil, body |-> b] : b \in Bodies}

\* len(urls), also the capacity of ch.
LenUrls == Len(urls)

\* urls[i], urls[j] = urls[j], urls[i]  (0-based i, j)
Swap(list, i, j) ==
    [list EXCEPT ![i + 1] = list[j + 1], ![j + 1] = list[i + 1]]

\* Mutant of ChanCap: the channel is one slot short of the endpoints.
ChanCapShort == LenUrls - 1

\* ch := make(chan string, len(urls)): the capacity of the channel.
ChanCap == LenUrls

\* Mutant of Send: the channel hands out the newest value first.
SendLifo(w, v) ==
    /\ Len(ch) < ChanCap
    /\ ch' = <<[val |-> v, from |-> w]>> \o ch
    /\ sendOrder' = Append(sendOrder, [val |-> v, from |-> w])
    /\ wpc' = [wpc EXCEPT ![w] = "done"]

\* ch <- v by worker w; the sender is kept beside the value for the
\* history only, Get reads the value alone.
Send(w, v) ==
    /\ Len(ch) < ChanCap
    /\ ch' = Append(ch, [val |-> v, from |-> w])
    /\ sendOrder' = Append(sendOrder, [val |-> v, from |-> w])
    /\ wpc' = [wpc EXCEPT ![w] = "done"]

----------------------------------------------------------------------------
(* Get.                                                                    *)

\* start := time.Now(); ctx, cancel := context.WithCancel(...);
\* ch := make(chan string, len(urls)); rand.Shuffle begins at i = n - 1.
GetEnter ==
    /\ gpc = "init"
    /\ ctx' = "active"
    /\ ch' = <<>>
    /\ si' = LenUrls - 1
    /\ gpc' = "shuffle"
    /\ UNCHANGED <<urls, net, gi, cancelCalls, wpc, wurl, contacted,
                   sendOrder, winner, ret, parseVars, raceVars, webVars>>

\* One iteration of rand.Shuffle: j uniform in [0, i], swap(i, j), i--.
ShuffleStep ==
    /\ gpc = "shuffle"
    /\ si > 0
    /\ \E j \in 0..si : urls' = Swap(urls, si, j)
    /\ si' = si - 1
    /\ UNCHANGED <<net, gpc, gi, ctx, cancelCalls, ch, wpc, wurl, contacted,
                   sendOrder, winner, ret, parseVars, raceVars, webVars>>

\* rand.Shuffle returns; the spawn loop starts at index 0.
ShuffleDone ==
    /\ gpc = "shuffle"
    /\ si <= 0
    /\ gi' = 0
    /\ gpc' = "spawn"
    /\ UNCHANGED <<urls, net, si, ctx, cancelCalls, ch, wpc, wurl, contacted,
                   sendOrder, winner, ret, parseVars, raceVars, webVars>>

\* for _, url := range urls { go fetchURL(ctx, url, ch) }: one iteration.
Spawn ==
    /\ gpc = "spawn"
    /\ gi < LenUrls
    /\ wpc' = [wpc EXCEPT ![gi + 1] = "start"]
    /\ wurl' = [wurl EXCEPT ![gi + 1] = urls[gi + 1]]
    /\ gi' = gi + 1
    /\ UNCHANGED <<urls, net, gpc, si, ctx, cancelCalls, ch, contacted,
                   sendOrder, winner, ret, parseVars, raceVars, webVars>>

\* The spawn loop ends; the receive loop starts at i = 0.
SpawnDone ==
    /\ gpc = "spawn"
    /\ gi >= LenUrls
    /\ gi' = 0
    /\ gpc' = "recv"
    /\ UNCHANGED <<urls, net, si, ctx, cancelCalls, ch, wpc, wurl, contacted,
                   sendOrder, winner, ret, parseVars, raceVars, webVars>>

\* Mutant of MoreReports: the loop stops one report early.
MoreReportsOffByOne == gi < LenUrls - 1

\* The loop condition of the receive loop.
MoreReports == gi < LenUrls

\* Mutant of IsSuccess: the test of the result is dropped.
IsSuccessAlways(result) == TRUE

\* if result != ""
IsSuccess(result) == result # EmptyStr

\* The url Get returns beside the result received in iteration i.
SourceOf(i) == urls[i + 1]

\* result := <-ch, then either cancel() and the return statement's results,
\* or i++.
GetRecv ==
    /\ gpc = "recv"
    /\ MoreReports
    /\ Len(ch) > 0
    /\ ch' = Tail(ch)
    /\ LET result == Head(ch).val
       IN  IF IsSuccess(result)
           THEN /\ ctx' = "cancelled"
                /\ cancelCalls' = cancelCalls + 1
                /\ ret' = [ip |-> result, url |-> SourceOf(gi), err |-> Nil]
                /\ winner' = Head(ch).from
                /\ gpc' = "return"
                /\ gi' = gi
           ELSE /\ gi' = gi + 1
                /\ UNCHANGED <<ctx, cancelCalls, ret, winner, gpc>>
    /\ UNCHANGED <<urls, net, si, wpc, wurl, contacted, sendOrder, parseVars, raceVars, webVars>>

\* The loop ran out: log.Error and the results of the final return.
GetAllFailed ==
    /\ gpc = "recv"
    /\ ~MoreReports
    /\ ret' = [ip |-> EmptyStr, url |-> EmptyStr, err |-> "all requests failed"]
    /\ gpc' = "return"
    /\ UNCHANGED <<urls, net, si, gi, ctx, cancelCalls, ch, wpc, wurl,
                   contacted, sendOrder, winner, parseVars, raceVars, webVars>>

\* Mutant of GetReturn: the deferred cancel() is missing.
GetReturnNoDefer ==
    /\ gpc = "return"
    /\ gpc' = "done"
    /\ UNCHANGED <<urls, net, si, gi, ctx, cancelCalls, ch, wpc, wurl,
                   contacted, sendOrder, winner, ret, parseVars, raceVars, webVars>>

\* defer cancel() runs as Get returns, on either path.
GetReturn ==
    /\ gpc = "return"
    /\ ctx' = "cancelled"
    /\ cancelCalls' = cancelCalls + 1
    /\ gpc' = "done"
    /\ UNCHANGED <<urls, net, si, gi, ch, wpc, wurl, contacted, sendOrder,
                   winner, ret, parseVars, raceVars, webVars>>

----------------------------------------------------------------------------
(* fetchURL, run by worker w with the url it was started with.             *)

\* Mutant of CtxDone: the request is built without the shared context.
CtxDoneNever == FALSE

\* Whether the transport finds the request's context done before it
\* obtains a connection.
CtxDone == ctx = "cancelled"

\* req, err := http.NewRequestWithContext(ctx, "GET", url, nil), which
\* fails on a malformed url, and the start of http.DefaultClient.Do(req):
\* with the context already cancelled Do returns the context's error
\* without contacting the endpoint; otherwise the request goes out.
WDo(w) ==
    /\ wpc[w] = "start"
    /\ IF net[wurl[w]] = "badurl" \/ CtxDone
       THEN /\ Send(w, EmptyStr)
            /\ UNCHANGED contacted
       ELSE /\ contacted' = [contacted EXCEPT ![w] = TRUE]
            /\ wpc' = [wpc EXCEPT ![w] = "inflight"]
            /\ UNCHANGED <<ch, sendOrder>>
    /\ UNCHANGED <<urls, net, gpc, si, gi, ctx, cancelCalls, wurl, winner,
                   ret, parseVars, raceVars, webVars>>

\* Mutant of WDoFail: the error path returns without sending.
WDoFailSilent(w) ==
    /\ wpc[w] = "inflight"
    /\ net[wurl[w]] = "refused" \/ ctx = "cancelled"
    /\ wpc' = [wpc EXCEPT ![w] = "done"]
    /\ UNCHANGED <<urls, net, gpc, si, gi, ctx, cancelCalls, ch, wurl,
                   contacted, sendOrder, winner, ret, parseVars, raceVars, webVars>>

\* The request in flight fails: a transport error from the endpoint, or the
\* context was cancelled while Do or io.ReadAll was blocked.  A hanging
\* endpoint fails in no other way: the client has no timeout.
WDoFail(w) ==
    /\ wpc[w] = "inflight"
    /\ net[wurl[w]] = "refused" \/ ctx = "cancelled"
    /\ Send(w, EmptyStr)
    /\ UNCHANGED <<urls, net, gpc, si, gi, ctx, cancelCalls, wurl, contacted,
                   winner, ret, parseVars, raceVars, webVars>>

\* What fetchURL sends for an outcome of io.ReadAll: "" on a read error or
\* a getIP error, else the ip getIP returned.
Report(o) ==
    IF o.err # Nil THEN EmptyStr
    ELSE LET r == getIP(o.body)
         IN  IF r.err # Nil THEN EmptyStr ELSE r.ip

\* The endpoint answers: Do returns, io.ReadAll, getIP, and the send.
WRespond(w) ==
    /\ wpc[w] = "inflight"
    /\ net[wurl[w]] = "answers"
    /\ \E o \in ReadOutcomes : Send(w, Report(o))
    /\ UNCHANGED <<urls, net, gpc, si, gi, ctx, cancelCalls, wurl, contacted,
                   winner, ret, parseVars, raceVars, webVars>>

----------------------------------------------------------------------------
(* Overlapping calls of Get on the shared list: the shuffle and the range  *)
(* loop of each call (src/whatsmyip.go:239-243), with the swap             *)
(* urls[i], urls[j] = urls[j], urls[i] taken apart into its two reads and  *)
(* two writes, since nothing orders them against another call's.  What a   *)
(* worker does with its url is left out; a torn read of a string header is *)
(* not modelled.                                                           *)

\* Number of calls of Get that overlap.
NumCalls == 2

Calls == 1..NumCalls

\* rand.Shuffle begins at i = n - 1.
REnter(c) ==
    /\ rpc[c] = "enter"
    /\ rsi' = [rsi EXCEPT ![c] = LenUrls - 1]
    /\ rpc' = [rpc EXCEPT ![c] = "shuffle"]
    /\ UNCHANGED <<urls, rj, rvi, rvj, rgi, rstarted>>

\* One iteration of rand.Shuffle begins: j uniform in [0, i]; the swap
\* reads urls[j], the first operand on the right.
RReadJ(c) ==
    /\ rpc[c] = "shuffle"
    /\ rsi[c] > 0
    /\ \E j \in 0..rsi[c] :
           /\ rj' = [rj EXCEPT ![c] = j]
           /\ rvj' = [rvj EXCEPT ![c] = urls[j + 1]]
    /\ rpc' = [rpc EXCEPT ![c] = "readi"]
    /\ UNCHANGED <<urls, rsi, rvi, rgi, rstarted>>

\* The swap reads urls[i], the second operand on the right.
RReadI(c) ==
    /\ rpc[c] = "readi"
    /\ rvi' = [rvi EXCEPT ![c] = urls[rsi[c] + 1]]
    /\ rpc' = [rpc EXCEPT ![c] = "writei"]
    /\ UNCHANGED <<urls, rsi, rj, rvj, rgi, rstarted>>

\* The swap assigns urls[i].
RWriteI(c) ==
    /\ rpc[c] = "writei"
    /\ urls' = [urls EXCEPT ![rsi[c] + 1] = rvj[c]]
    /\ rpc' = [rpc EXCEPT ![c] = "writej"]
    /\ UNCHANGED <<rsi, rj, rvi, rvj, rgi, rstarted>>

\* The swap assigns urls[j]; i--.
RWriteJ(c) ==
    /\ rpc[c] = "writej"
    /\ urls' = [urls EXCEPT ![rj[c] + 1] = rvi[c]]
    /\ rsi' = [rsi EXCEPT ![c] = rsi[c] - 1]
    /\ rpc' = [rpc EXCEPT ![c] = "shuffle"]
    /\ UNCHANGED <<rj, rvi, rvj, rgi, rstarted>>

\* rand.Shuffle returns; the range loop starts at index 0.
RShuffleDone(c) ==
    /\ rpc[c] = "shuffle"
    /\ rsi[c] <= 0
    /\ rgi' = [rgi EXCEPT ![c] = 0]
    /\ rpc' = [rpc EXCEPT ![c] = "spawn"]
    /\ UNCHANGED <<urls, rsi, rj, rvi, rvj, rstarted>>

\* for _, url := range urls { go fetchURL(ctx, url, ch) }: one iteration.
RSpawn(c) ==
    /\ rpc[c] = "spawn"
    /\ rgi[c] < LenUrls
    /\ rstarted' = [rstarted EXCEPT ![c] = Append(rstarted[c], urls[rgi[c] + 1])]
    /\ rgi' = [rgi EXCEPT ![c] = rgi[c] + 1]
    /\ UNCHANGED <<urls, rpc, rsi, rj, rvi, rvj>>

\* The range loop ends; the call goes on to receive.
RSpawnDone(c) ==
    /\ rpc[c] = "spawn"
    /\ rgi[c] >= LenUrls
    /\ rpc' = [rpc EXCEPT ![c] = "done"]
    /\ UNCHANGED <<urls, rsi, rj, rvi, rvj, rgi, rstarted>>

\* The variables a step of an overlapping call leaves alone.
RaceFrame ==
    UNCHANGED <<net, gpc, si, gi, ctx, cancelCalls, ch, wpc, wurl, contacted,
                sendOrder, winner, ret, parseVars, webVars>>

----------------------------------------------------------------------------
(* The example web server (src/examples/webserver/webserver.go): the       *)
(* updateIP goroutine refreshing the IPCache and the /ip handlers reading  *)
(* it.  whatsmyip.Get is taken by its outcome: an error, or one of the     *)
(* non-empty values a worker can report.                                   *)

\* Refreshes the updateIP loop runs through.
MaxRefresh == 2

\* Requests to /ip.
NumRequests == 2

Handlers == 1..NumRequests

\* http.StatusServiceUnavailable
StatusServiceUnavailable == 503

\* The status of a response written without an explicit status.
StatusOK == 200

NotAvailable == "IP not available yet"

\* What whatsmyip.Get returns.
GetOutcomes ==
    {[ip |-> a, err |-> Nil] : a \in {Report(o) : o \in ReadOutcomes} \ {EmptyStr}}
        \cup {[ip |-> EmptyStr, err |-> "all requests failed"]}

\* Mutant of RefreshOk: the error of Get is ignored.
RefreshOkAlways(res) == TRUE

\* if err != nil { ... } else { ... }
RefreshOk(res) == res.err = Nil

\* ip, _, err := whatsmyip.Get(), and the branch on err.
UGet ==
    /\ upc = "get"
    /\ now <= MaxRefresh
    /\ \E res \in GetOutcomes :
           /\ ures' = res
           /\ upc' = IF RefreshOk(res) THEN "lock" ELSE "sleep"
    /\ UNCHANGED <<cip, cfetch, now, mu, stored, hpc, hip, hsaw, hresp>>

\* c.mu.Lock()
ULock ==
    /\ upc = "lock"
    /\ ~mu.w /\ mu.r = 0
    /\ mu' = [mu EXCEPT !.w = TRUE]
    /\ upc' = "setip"
    /\ UNCHANGED <<cip, cfetch, now, ures, stored, hpc, hip, hsaw, hresp>>

\* c.ip = ip
USetIp ==
    /\ upc = "setip"
    /\ cip' = ures.ip
    /\ stored' = stored + 1
    /\ upc' = "setfetch"
    /\ UNCHANGED <<cfetch, now, mu, ures, hpc, hip, hsaw, hresp>>

\* c.lastFetch = time.Now()
USetFetch ==
    /\ upc = "setfetch"
    /\ cfetch' = now
    /\ upc' = "unlock"
    /\ UNCHANGED <<cip, now, mu, ures, stored, hpc, hip, hsaw, hresp>>

\* c.mu.Unlock()
UUnlock ==
    /\ upc = "unlock"
    /\ mu' = [mu EXCEPT !.w = FALSE]
    /\ upc' = "sleep"
    /\ UNCHANGED <<cip, cfetch, now, ures, stored, hpc, hip, hsaw, hresp>>

\* time.Sleep(24 * time.Hour), and the loop goes round.
USleep ==
    /\ upc = "sleep"
    /\ now' = now + 1
    /\ upc' = "get"
    /\ UNCHANGED <<cip, cfetch, mu, ures, stored, hpc, hip, hsaw, hresp>>

\* A request arrives; cache.getIP() takes c.mu.RLock().
HRLock(h) ==
    /\ hpc[h] = "idle"
    /\ ~mu.w
    /\ mu' = [mu EXCEPT !.r = mu.r + 1]
    /\ hpc' = [hpc EXCEPT ![h] = "read"]
    /\ UNCHANGED <<cip, cfetch, now, upc, ures, stored, hip, hsaw, hresp>>

\* return c.ip: the read of the cache.
HRead(h) ==
    /\ hpc[h] = "read"
    /\ hip' = [hip EXCEPT ![h] = cip]
    /\ hsaw' = [hsaw EXCEPT ![h] = stored]
    /\ hpc' = [hpc EXCEPT ![h] = "runlock"]
    /\ UNCHANGED <<cip, cfetch, now, mu, upc, ures, stored, hresp>>

\* defer c.mu.RUnlock()
HRUnlock(h) ==
    /\ hpc[h] = "runlock"
    /\ mu' = [mu EXCEPT !.r = mu.r - 1]
    /\ hpc' = [hpc EXCEPT ![h] = "respond"]
    /\ UNCHANGED <<cip, cfetch, now, upc, ures, stored, hip, hsaw, hresp>>

\* if ip == "" { http.Error(..., 503) } else { fmt.Fprintf(w, ...) }
HRespond(h) ==
    /\ hpc[h] = "respond"
    /\ hresp' = [hresp EXCEPT ![h] =
                    IF hip[h] = EmptyStr
                    THEN [status |-> StatusServiceUnavailable, ip |-> EmptyStr,
                          text |-> NotAvailable]
                    ELSE [status |-> StatusOK, ip |-> hip[h],
                          text |-> "Current IP"]]
    /\ hpc' = [hpc EXCEPT ![h] = "done"]
    /\ UNCHANGED <<cip, cfetch, now, mu, upc, ures, stored, hip, hsaw>>

\* The variables a step of the web server leaves alone.
WebFrame == UNCHANGED <<getVars, parseVars, raceVars>>

\* cache := &IPCache{}; no request answered yet.
WebStart ==
    /\ cip = EmptyStr
    /\ cfetch = 0
    /\ now = 1
    /\ mu = [w |-> FALSE, r |-> 0]
    /\ ures = [ip |-> EmptyStr, err |-> Nil]
    /\ stored = 0
    /\ hpc = [h \in Handlers |-> "idle"]
    /\ hip = [h \in Handlers |-> EmptyStr]
    /\ hsaw = [h \in Handlers |-> 0]
    /\ hresp = [h \in Handlers |-> [status |-> 0, ip |-> EmptyStr, text |-> ""]]

\* Variables of the web server while it is not modelled.
WebOff == upc = "off" /\ WebStart

----------------------------------------------------------------------------
(* Specifications.                                                         *)

\* Variables of the overlapping calls while they are not modelled.
RaceOff ==
    /\ rpc = [c \in Calls |-> "off"]
    /\ rsi = [c \in Calls |-> 0]
    /\ rj = [c \in Calls |-> 0]
    /\ rvi = [c \in Calls |-> EmptyStr]
    /\ rvj = [c \in Calls |-> EmptyStr]
    /\ rgi = [c \in Calls |-> 0]
    /\ rstarted = [c \in Calls |-> <<>>]

\* Variables of the getIP harness while the race runs.
ParseOff ==
    /\ ppc = "off"
    /\ pin = EmptyStr
    /\ pout = [ip |-> EmptyStr, err |-> Nil]

\* Variables of the race while the getIP harness runs.
GetOff ==
    /\ urls = ConfiguredUrls
    /\ net = [u \in {Url(k) : k \in 1..NumUrls} |-> "answers"]
    /\ gpc = "off"
    /\ si = 0
    /\ gi = 0
    /\ ctx = "none"
    /\ cancelCalls = 0
    /\ ch = <<>>
    /\ wpc = [w \in Workers |-> "idle"]
    /\ wurl = [w \in Workers |-> EmptyStr]
    /\ contacted = [w \in Workers |-> FALSE]
    /\ sendOrder = <<>>
    /\ winner = 0
    /\ ret = [ip |-> EmptyStr, url |-> EmptyStr, err |-> Nil]

\* One call of Get about to start, on the configured list, against any
\* behaviour of the endpoints.
Init ==
    /\ urls = ConfiguredUrls
    /\ net \in [{Url(k) : k \in 1..NumUrls} -> NetKinds]
    /\ gpc = "init"
    /\ si = 0
    /\ gi = 0
    /\ ctx = "none"
    /\ cancelCalls = 0
    /\ ch = <<>>
    /\ wpc = [w \in Workers |-> "idle"]
    /\ wurl = [w \in Workers |-> EmptyStr]
    /\ contacted = [w \in Workers |-> FALSE]
    /\ sendOrder = <<>>
    /\ winner = 0
    /\ ret = [ip |-> EmptyStr, url |-> EmptyStr, err |-> Nil]
    /\ ParseOff
    /\ RaceOff
    /\ WebOff

GetStep ==
    \/ GetEnter
    \/ ShuffleStep
    \/ ShuffleDone
    \/ Spawn
    \/ SpawnDone
    \/ GetRecv
    \/ GetAllFailed
    \/ GetReturn

WorkerStep(w) ==
    \/ WDo(w)
    \/ WDoFail(w)
    \/ WRespond(w)

Next ==
    \/ GetEnter
    \/ ShuffleStep
    \/ ShuffleDone
    \/ Spawn
    \/ SpawnDone
    \/ GetRecv
    \/ GetAllFailed
    \/ GetReturn
    \/ \E w \in Workers : WDo(w)
    \/ \E w \in Workers : WDoFail(w)
    \/ \E w \in Workers : WRespond(w)

Spec == Init /\ [][Next]_vars

\* The Go scheduler runs every goroutine that can take a step.
FairSpec ==
    /\ Spec
    /\ WF_vars(GetStep)
    /\ \A w \in Workers : WF_vars(WorkerStep(w))

\* getIP about to be called on any of the inputs.
ParseInit ==
    /\ ppc = "call"
    /\ pin \in Inputs(MaxLines)
    /\ pout = [ip |-> EmptyStr, err |-> Nil]
    /\ GetOff
    /\ RaceOff
    /\ WebOff

ParseNext == ParseCall

\* NumCalls calls of Get about to start on the configured list.
RaceInit ==
    /\ GetOff
    /\ ParseOff
    /\ WebOff
    /\ rpc = [c \in Calls |-> "enter"]
    /\ rsi = [c \in Calls |-> 0]
    /\ rj = [c \in Calls |-> 0]
    /\ rvi = [c \in Calls |-> EmptyStr]
    /\ rvj = [c \in Calls |-> EmptyStr]
    /\ rgi = [c \in Calls |-> 0]
    /\ rstarted = [c \in Calls |-> <<>>]

RaceNext ==
    \/ \E c \in Calls : REnter(c) /\ RaceFrame
    \/ \E c \in Calls : RReadJ(c) /\ RaceFrame
    \/ \E c \in Calls : RReadI(c) /\ RaceFrame
    \/ \E c \in Calls : RWriteI(c) /\ RaceFrame
    \/ \E c \in Calls : RWriteJ(c) /\ RaceFrame
    \/ \E c \in Calls : RShuffleDone(c) /\ RaceFrame
    \/ \E c \in Calls : RSpawn(c) /\ RaceFrame
    \/ \E c \in Calls : RSpawnDone(c) /\ RaceFrame

SpecRace == RaceInit /\ [][RaceNext]_vars

\* main: the cache is empty, updateIP starts, requests may arrive.
WebInit ==
    /\ GetOff
    /\ ParseOff
    /\ RaceOff
    /\ upc = "get"
    /\ WebStart

WebNext ==
    \/ UGet /\ WebFrame
    \/ ULock /\ WebFrame
    \/ USetIp /\ WebFrame
    \/ USetFetch /\ WebFrame
    \/ UUnlock /\ WebFrame
    \/ USleep /\ WebFrame
    \/ \E h \in Handlers : HRLock(h) /\ WebFrame
    \/ \E h \in Handlers : HRead(h) /\ WebFrame
    \/ \E h \in Handlers : HRUnlock(h) /\ WebFrame
    \/ \E h \in Handlers : HRespond(h) /\ WebFrame

SpecWeb == WebInit /\ [][WebNext]_vars

SpecParse == ParseInit /\ [][ParseNext]_vars

----------------------------------------------------------------------------
(* Properties.                                                             *)

\* Get has executed a return statement.
Returned == gpc \in {"return", "done"}

ReturnedOk == Returned /\ ret.err = Nil

ReturnedErr == Returned /\ ret.err # Nil

\* The values sent so far, by whom.
SentBy(w) == {k \in 1..Len(sendOrder) : sendOrder[k].from = w}

\* C1: whenever Get returns successfully, the source url it returns is the
\* url of the endpoint whose worker produced the returned ip.
C1_SourceIsWinnersUrl == ReturnedOk => ret.url = wurl[winner]

\* C2: every call of Get returns (non-empty ip, non-empty source, nil error)
\* or (empty ip, empty source, non-nil error), and nothing else.
C2_OutcomeShape ==
    Returned =>
        \/ ret.ip # EmptyStr /\ ret.url # EmptyStr /\ ret.err = Nil
        \/ ret.ip = EmptyStr /\ ret.url = EmptyStr /\ ret.err # Nil

\* A successful return that came after a failure report.
C2_Witness == gpc = "done" /\ ret.err = Nil /\ ret.ip # EmptyStr /\ gi > 0

\* C3: Get returns the all-requests-failed error exactly when every worker
\* reported failure: at an error return every worker has sent its one
\* report, every report is empty and all have been received; at a return
\* without error some worker reported a non-empty ip.
C3_ErrorIffAllFailed ==
    /\ ReturnedErr =>
           /\ ret.err = "all requests failed"
           /\ \A w \in Workers : wpc[w] = "done" /\ Cardinality(SentBy(w)) = 1
           /\ \A k \in 1..Len(sendOrder) : sendOrder[k].val = EmptyStr
           /\ ch = <<>>
    /\ ReturnedOk => \E k \in 1..Len(sendOrder) : sendOrder[k].val # EmptyStr

\* An error return after requests really went out and failed.
C3_Witness ==
    /\ gpc = "done"
    /\ ret.err # Nil
    /\ \E w \in Workers : contacted[w]
    /\ \E w \in Workers : ~contacted[w]

\* C4: the ip Get returns is the one carried by the first non-empty value
\* sent on the channel, whatever the position of its worker in the list.
C4_FirstSuccessWins ==
    ReturnedOk =>
        \E k \in 1..Len(sendOrder) :
            /\ sendOrder[k].val # EmptyStr
            /\ \A m \in 1..(k - 1) : sendOrder[m].val = EmptyStr
            /\ ret.ip = sendOrder[k].val
            /\ winner = sendOrder[k].from

\* A worker that is not first in the list won, after a failure report, and
\* another worker delivered a different ip later.
C4_Witness ==
    /\ gpc = "done"
    /\ ret.err = Nil
    /\ winner > 1
    /\ gi > 0
    /\ \E k \in 1..Len(sendOrder) :
           /\ sendOrder[k].from # winner
           /\ sendOrder[k].val \notin {EmptyStr, ret.ip}

\* C5: whenever Get returns a nil error, the ip is a valid IPv4 or IPv6
\* literal and the source is one of the configured endpoints.
C5_ValidIpAndSource ==
    ReturnedOk =>
        /\ IsValidIP(ret.ip)
        /\ \E k \in 1..NumUrls : ret.url = ConfiguredUrls[k]

\* No endpoint delivers a response.
AllUnreachable == \A k \in 1..NumUrls : net[Url(k)] # "answers"

\* C6: if every endpoint is unreachable, hanging ones included, Get
\* eventually returns the all-requests-failed error.
C6_EventuallyAllFailed ==
    AllUnreachable => <>(gpc = "done" /\ ret.err = "all requests failed")

C8_CancelledOnlyOnSuccess ==
    /\ (gpc \in {"init", "shuffle", "spawn", "recv"}) => ctx # "cancelled"
    /\ ReturnedOk => ctx = "cancelled"
    /\ ReturnedErr => ctx # "cancelled"

\* C8 as amended: the context is never cancelled while Get still waits for
\* a first success; cancel() is called on the first successful report and
\* again, by the deferred call, as Get returns, so that a successful call
\* has called it twice and an all-failed call once, at its return; once Get
\* has returned the context is cancelled on either path.
C8_CancelDiscipline ==
    /\ (gpc \in {"init", "shuffle", "spawn", "recv"}) =>
           ctx # "cancelled" /\ cancelCalls = 0
    /\ (gpc = "return" /\ ret.err = Nil) => ctx = "cancelled" /\ cancelCalls = 1
    /\ (gpc = "return" /\ ret.err # Nil) => ctx = "active" /\ cancelCalls = 0
    /\ (gpc = "done" /\ ret.err = Nil) => ctx = "cancelled" /\ cancelCalls = 2
    /\ (gpc = "done" /\ ret.err # Nil) => ctx = "cancelled" /\ cancelCalls = 1

\* An all-failed call has returned and its context is cancelled.
C8_Witness ==
    /\ gpc = "done"
    /\ ret.err # Nil
    /\ ctx = "cancelled"
    /\ cancelCalls = 1

\* The lines of s, lowercased, each without its leading "ip=".
StrippedLines(s) ==
    LET ls == Split(ToLower(s), NL)
    IN  {TrimPrefix(ls[k], IpEq) : k \in 1..Len(ls)}

\* C9: for every input in which no line is a valid IP literal (after
\* stripping an optional leading "ip="), getIP returns a non-nil error and
\* an empty ip.
C9_NoAddressIsAnError ==
    (ppc = "done" /\ \A l \in StrippedLines(pin) : ~IsValidIP(l)) =>
        pout.err # Nil /\ pout.ip = EmptyStr

\* C10: for every valid address a, getIP("ip=" + a) and getIP("IP=" + a),
\* bodies of one line without a newline, return a (in lower case) without
\* the prefix and with a nil error.
C10_PrefixStrippedOnSingleLine ==
    \A a \in {x \in Payloads : IsValidIP(x)} :
        (ppc = "done" /\ pin \in {IpEq \o a, <<"I", "P", "=">> \o a}) =>
            pout = [ip |-> ToLower(a), err |-> Nil]

\* The lines of s in order, lowercased, each without its leading "ip=".
StrippedSeq(s) ==
    LET ls == Split(ToLower(s), NL)
    IN  [k \in 1..Len(ls) |-> TrimPrefix(ls[k], IpEq)]

\* C11: for every multi-line input getIP returns the first line, in
\* original order, that is a valid IP address, with or without the "ip="
\* prefix; invalid lines before it are skipped.
C11_FirstValidLineWins ==
    LET ls    == StrippedSeq(pin)
        valid == {k \in 1..Len(ls) : IsValidIP(ls[k])}
    IN  (ppc = "done" /\ Contains(pin, NL) /\ valid # {}) =>
            LET k == CHOOSE n \in valid : \A m \in valid : n <= m
            IN  pout = [ip |-> ls[k], err |-> Nil]

\* The lines of s that read ip=<addr> with addr a valid address.
IpAddrLines(s) ==
    LET ls == Split(ToLower(s), NL)
    IN  {k \in 1..Len(ls) :
            HasPrefix(ls[k], IpEq) /\ IsValidIP(TrimPrefix(ls[k], IpEq))}

\* C12: for every multi-line input in which exactly one line reads
\* ip=<addr> with addr a valid address, getIP returns addr with a nil error
\* wherever that line stands.
C12_SingleIpLineFound ==
    (ppc = "done" /\ Contains(pin, NL) /\ Cardinality(IpAddrLines(pin)) = 1) =>
        LET k == CHOOSE n \in IpAddrLines(pin) : TRUE
        IN  pout = [ip |-> StrippedSeq(pin)[k], err |-> Nil]

C16_ListUnchanged == urls = ConfiguredUrls

\* The ips getIP can return for a body an endpoint delivers.
ParsedIps == {getIP(b).ip : b \in {x \in Bodies : getIP(x).err = Nil}}

\* C17: every worker sends exactly one value on the channel on the path it
\* takes and never a second one: a worker that has finished has sent once,
\* one that has not has sent nothing, and the step that finishes a worker
\* appends its one value, which is "" unless the endpoint answered and
\* getIP parsed the body.
C17_ExactlyOneReport ==
    /\ [](\A w \in Workers :
            Cardinality(SentBy(w)) = IF wpc[w] = "done" THEN 1 ELSE 0)
    /\ [][\A w \in Workers :
            (wpc[w] # "done" /\ wpc'[w] = "done") =>
                /\ Len(sendOrder') = Len(sendOrder) + 1
                /\ sendOrder'[Len(sendOrder')].from = w
                /\ ch' = Append(ch, sendOrder'[Len(sendOrder')])
                /\ LET v == sendOrder'[Len(sendOrder')].val
                   IN  \/ v = EmptyStr
                       \/ /\ wpc[w] = "inflight"
                          /\ net[wurl[w]] = "answers"
                          /\ v \in ParsedIps]_vars

\* Every worker has finished, one on a transport error, one on a cancelled
\* request and one with a parsed ip.
C17_Witness ==
    /\ \A w \in Workers : wpc[w] = "done"
    /\ \E w \in Workers : net[wurl[w]] = "refused" /\ contacted[w]
    /\ \E w \in Workers : net[wurl[w]] = "hang" /\ contacted[w]
    /\ \E k \in 1..Len(sendOrder) : sendOrder[k].val # EmptyStr

\* C18: the channel never holds more values than its capacity, the number
\* of endpoints, and a worker that has yet to send finds room, so no send
\* blocks; once Get has returned, every worker still running can take its
\* next step, and so terminates.
C18_SendsNeverBlock ==
    /\ Len(ch) <= NumUrls
    /\ \A w \in Workers : wpc[w] \in {"start", "inflight"} => Len(ch) < ChanCap
    /\ gpc = "done" =>
           \A w \in Workers : wpc[w] # "done" => ENABLED WorkerStep(w)

\* Get has returned with a value it never received still in the channel,
\* while a worker is yet to send.
C18_Witness ==
    /\ gpc = "done"
    /\ Len(ch) > 0
    /\ \E w \in Workers : wpc[w] = "inflight" /\ net[wurl[w]] = "hang"

\* C18 with the termination stated as such: the same, and under fair
\* scheduling every worker eventually finishes once Get has returned.
C18_WorkersTerminate ==
    /\ []C18_SendsNeverBlock
    /\ (gpc = "done") ~> (\A w \in Workers : wpc[w] = "done")

\* Whether a sequence of urls is the configured list in some order.
IsPermutation(list) ==
    /\ Len(list) = NumUrls
    /\ \A k \in 1..NumUrls :
           Cardinality({n \in 1..Len(list) : list[n] = Url(k)}) = 1

\* C14: after any interleaving of concurrent calls of Get the endpoint list
\* is a permutation of the configured endpoints.
C14_ListStaysPermutation ==
    (\A c \in Calls : rpc[c] = "done") => IsPermutation(urls)

\* C15: in every call of Get, overlapping calls included, exactly one
\* worker is started for each configured endpoint.
C15_OneWorkerPerEndpoint ==
    \A c \in Calls : rpc[c] = "done" => IsPermutation(rstarted[c])

\* C19: the cached ip is empty until a refresh has stored one and never
\* empty afterwards, and the last-fetch time is set once the refresh has
\* released the lock; a refresh whose Get failed changes neither the cached
\* ip nor the last-fetch time; a handler answers 503 "IP not available yet"
\* exactly when no refresh had stored an ip when it read the cache, and
\* otherwise answers with the ip it read.
C19_CacheAndHandler ==
    /\ [](stored = 0 => cip = EmptyStr /\ cfetch = 0)
    /\ [](stored > 0 => cip # EmptyStr)
    /\ [](stored > 0 /\ ~mu.w => cfetch > 0)
    /\ [][ures'.err # Nil => cip' = cip /\ cfetch' = cfetch]_vars
    /\ [](\A h \in Handlers :
            hpc[h] = "done" =>
                /\ hresp[h].status = StatusServiceUnavailable <=> hsaw[h] = 0
                /\ hresp[h].status = StatusServiceUnavailable =>
                       hresp[h].text = NotAvailable
                /\ hresp[h].status # StatusServiceUnavailable =>
                       /\ hresp[h].status = StatusOK
                       /\ hresp[h].ip # EmptyStr)

\* One handler answered 503 and another the ip, and the last refresh
\* failed after an earlier one had stored an ip.
C19_Witness ==
    /\ \E h \in Handlers : hpc[h] = "done" /\ hresp[h].status = StatusServiceUnavailable
    /\ \E h \in Handlers : hpc[h] = "done" /\ hresp[h].status = StatusOK
    /\ stored > 0
    /\ upc = "sleep"
    /\ ures.err # Nil
    /\ cip # EmptyStr

====
